---- MODULE Spec2Model ----
(***************************************************************************)
(* EventRpcClient (fastapi_websocket_rpc/pubsub/event_rpc_client.py):      *)
(* the connection lifecycle run() under the apply_retry wrapper, the       *)
(* subscription registry (subscribe / act_on_topic) and the connect hooks  *)
(* (on_connect / _on_connection).                                          *)
(*                                                                         *)
(* run() is a coroutine on a single asyncio loop.  pc is the line run()    *)
(* stands at; the other methods of the client are synchronous calls (or    *)
(* callbacks of the reader task) that the loop can execute only while      *)
(* run() is suspended in an await, or before / after run().                *)
(***************************************************************************)
EXTENDS Integers, Sequences, FiniteSets, TLC

\* ---------------------------------------------------------------- bounds
MaxTopics == 2        \* longest topic list explored
MaxInitTopics == 1    \* longest topics argument given to the constructor
MaxHooks == 2         \* longest connect-hook list explored
MaxFaults == 1        \* faults the transport / the hooks raise in one run

\* ------------------------------------------------------ input universes
TopicIds == {"guns", "germs"}
CallbackIds == {"cbA", "cbB"}
HookIds == {"h1"}
DataVals == {"d1"}
FaultKinds == {"closed", "transport", "other"}

VARIABLES
  pc,                   \* where run() (with its retry wrapper) stands
  running,              \* self._running
  retry_config,         \* self._retry_config: "disabled" (False) or "default"
  wait_on_reader,       \* argument of run()
  topics_is_default,    \* self._topics is the default list object of __init__
  topics,               \* self._topics: the content of the list it refers to
  callbacks,            \* self._callbacks; "none" where the dict has no key
  on_connect_callbacks, \* self._on_connect_callbacks
  client,               \* the handle bound by `async with ... as client`
  sub_calls,            \* remote subscribe calls issued by the handshake of
                        \* the attempt, while run() is inside its try block
  sub_state,            \* state of that remote call
  gathered,             \* hooks handed to asyncio.gather in this attempt
  hook_tasks,           \* state of each task started by that gather
  fault,                \* the exception propagating out of the attempt
  raised,               \* the exception raised in this attempt: where, which
  attempt,              \* number of executions of the body of run()
  failed_attempts,      \* number of executions that ended in an exception
  faults_left,          \* faults the environment may still raise
  dispatched,           \* the last act_on_topic: its arguments and its calls
  first_running,        \* the attempt in which run() first set
                        \* self._running = True; 0 before that
  pre_start_topics,     \* topics passed to subscribe() before run() was called;
                        \* kept until the first handshake has sent its call
  late_subscribe,       \* a subscribe() between the call of run() and the
                        \* first handshake took effect; kept as long
  last_call             \* the topics listed in the most recent remote
                        \* subscribe call of run(); <<>> before the first

vars == <<pc, running, retry_config, wait_on_reader, topics_is_default,
          topics, callbacks, on_connect_callbacks, client,
          sub_calls, sub_state, gathered, hook_tasks, fault, raised, attempt,
          failed_attempts, faults_left, dispatched, first_running,
          pre_start_topics, late_subscribe, last_call>>

\* ------------------------------------------------------------- helpers
RECURSIVE SeqsUpTo(_, _)
SeqsUpTo(S, n) ==
  IF n = 0 THEN {<<>>}
  ELSE LET shorter == SeqsUpTo(S, n - 1)
       IN shorter \cup {Append(s, x) : s \in {q \in shorter : Len(q) = n - 1}, x \in S}

Range(s) == {s[i] : i \in 1..Len(s)}

\* the awaits of run(): only there can the loop run other code of the process
AwaitPoints == {"idle", "connecting", "subscribing", "gathering", "connected",
                "closing", "backoff", "returned", "failed"}
Suspended == pc \in AwaitPoints

ever_running == first_running # 0

NoFault == [at |-> "none", kind |-> "none"]

NoDispatch == [topic |-> "none", data |-> "none", calls |-> <<>>]

\* ---------------------------------------------------------------- Init
\* __init__: empty callback map and hook list, _running False
Init ==
  /\ pc = "idle"
  /\ running = FALSE
  /\ retry_config \in {"disabled", "default"}
  /\ wait_on_reader = TRUE
  /\ topics_is_default \in BOOLEAN
  /\ topics \in SeqsUpTo(TopicIds, MaxInitTopics)
  /\ (topics_is_default => topics = <<>>)
  /\ callbacks = [t \in TopicIds |-> "none"]
  /\ on_connect_callbacks = <<>>
  /\ client = "none"
  /\ sub_calls = <<>>
  /\ sub_state = "none"
  /\ gathered = <<>>
  /\ hook_tasks = <<>>
  /\ fault = "none"
  /\ raised = NoFault
  /\ attempt = 0
  /\ failed_attempts = 0
  /\ faults_left = MaxFaults
  /\ dispatched = NoDispatch
  /\ first_running = 0
  /\ pre_start_topics = {}
  /\ late_subscribe = FALSE
  /\ last_call = <<>>

\* ------------------------------------------------- the code's decisions
\* faulty variant of Connected: the None test is left out
ConnectedAlways(h) == TRUE

\* line 78: `if client is not None`
Connected(h) == h # "null"

\* faulty variant of IssueSubscribe: one remote call per topic
IssueSubscribePerTopic(tp) == [i \in 1..Len(tp) |-> <<tp[i]>>]

\* line 112: one call of the remote subscribe with topics=self._topics
IssueSubscribe(tp) == <<tp>>

\* faulty variant of StartHooks: a hook registered twice is called once
StartHooksOnce(hooks) ==
  LET first(i) == \A j \in 1..(i - 1) : hooks[j] # hooks[i]
      F[i \in 0..Len(hooks)] ==
        IF i = 0 THEN <<>>
        ELSE IF first(i) THEN Append(F[i - 1], hooks[i]) ELSE F[i - 1]
  IN F[Len(hooks)]

\* line 114: gather(*(callback() for callback in self._on_connect_callbacks))
StartHooks(hooks) == hooks

\* faulty variant of Reraise: the handler logs and swallows the exception
ReraiseSwallow(f) == "none"

\* lines 83-94: each handler logs and re-raises with a bare `raise`
Reraise(f) == f

\* faulty variant of RunningOnExit: no finally clause, the flag keeps its value
RunningOnExitKept == running

\* line 96: finally: self._running = False
RunningOnExit == FALSE

\* faulty variants of RetryOutcome: the configuration is not looked at
RetryAlways(cfg) == "backoff"

RetryNever(cfg) == "failed"

\* lines 19-24 (apply_retry) with the tenacity defaults of line 66: no stop
\* condition, every Exception retried; with False the function runs bare
RetryOutcome(cfg) == IF cfg = "disabled" THEN "failed" ELSE "backoff"

\* faulty variants of SubscribeAllowed: the test is inverted, or left out
SubscribeInverted(r) == r

SubscribeAlways(r) == TRUE

\* line 99: `if not self._running`
SubscribeAllowed(r) == ~r

\* faulty variant of AddTopic: the topic is inserted at the front
AddTopicFront(tp, topic) == <<topic>> \o tp

\* line 100: self._topics.append(topic)
AddTopic(tp, topic) == Append(tp, topic)

\* faulty variant of Record: a callback already recorded is kept (setdefault)
RecordFirst(cbs, topic, callback) ==
  IF cbs[topic] # "none" THEN cbs ELSE [cbs EXCEPT ![topic] = callback]

\* line 101: self._callbacks[topic] = callback
Record(cbs, topic, callback) == [cbs EXCEPT ![topic] = callback]

\* faulty variant of Dispatch: no membership test before the lookup
DispatchNoGuard(cbs, topic, data) == <<[cb |-> cbs[topic], data |-> data]>>

\* lines 117-118: the calls act_on_topic makes
Dispatch(cbs, topic, data) ==
  IF cbs[topic] # "none" THEN <<[cb |-> cbs[topic], data |-> data]>> ELSE <<>>

\* ------------------------------------------------------------ run()
\* Each action is one run of the coroutine from one await to the next.
registry == <<topics_is_default, topics, callbacks>>
subghost == <<pre_start_topics, late_subscribe, last_call>>
config == <<retry_config, wait_on_reader>>

\* lines 95-96: the finally clause; then the `async with` awaits __aexit__
ExitTry ==
  /\ running' = RunningOnExit
  /\ sub_calls' = <<>>
  /\ sub_state' = "none"
  /\ pc' = "closing"

\* lines 81-82: `if wait_on_reader: await client.wait_on_reader()`
WaitOrExit(calls, st) ==
  IF wait_on_reader
    THEN /\ running' = TRUE
         /\ sub_calls' = calls
         /\ sub_state' = st
         /\ pc' = "connected"
    ELSE ExitTry

\* lines 113-114: every hook is called and the coroutines are gathered
HooksOrOn(calls, st) ==
  IF on_connect_callbacks # <<>>
    THEN /\ gathered' = StartHooks(on_connect_callbacks)
         /\ hook_tasks' = [i \in 1..Len(gathered') |-> "pending"]
         /\ running' = TRUE
         /\ sub_calls' = calls
         /\ sub_state' = st
         /\ pc' = "gathering"
    ELSE /\ UNCHANGED <<gathered, hook_tasks>>
         /\ WaitOrExit(calls, st)

\* faulty variant of OnConnection: the remote call is started and not awaited
OnConnectionNoAwait ==
  IF topics # <<>>
    THEN HooksOrOn(IssueSubscribe(topics), "pending")
    ELSE HooksOrOn(<<>>, "none")

\* lines 79-80, 110-112: self._running = True, then _on_connection issues the
\* batched subscribe call and awaits it
OnConnection ==
  IF topics # <<>>
    THEN /\ running' = TRUE
         /\ sub_calls' = IssueSubscribe(topics)
         /\ sub_state' = "pending"
         /\ pc' = "subscribing"
         /\ UNCHANGED <<gathered, hook_tasks>>
    ELSE HooksOrOn(<<>>, "none")

\* lines 69-75: run() is called; the body starts and awaits __aenter__
Start(w) ==
  /\ pc = "idle"
  /\ pc' = "connecting"
  /\ wait_on_reader' = w
  /\ attempt' = 1
  /\ dispatched' = NoDispatch
  /\ UNCHANGED <<running, retry_config, registry, on_connect_callbacks, client,
                 sub_calls, sub_state, gathered, hook_tasks, fault, raised,
                 failed_attempts, faults_left, first_running, subghost>>

\* lines 75-80: __aenter__ returns a handle, which may be None; the try block
\* runs up to its first await, or to the end when there is nothing to await
Acquire(h) ==
  /\ pc = "connecting"
  /\ client' = h
  /\ IF Connected(h)
       THEN /\ first_running' = IF first_running = 0 THEN attempt ELSE first_running
            /\ pre_start_topics' = {}
            /\ late_subscribe' = FALSE
            /\ OnConnection
            /\ last_call' = IF sub_calls' # <<>>
                              THEN sub_calls'[Len(sub_calls')]
                              ELSE last_call
       ELSE /\ ExitTry
            /\ UNCHANGED <<gathered, hook_tasks, first_running, subghost>>
  /\ dispatched' = NoDispatch
  /\ UNCHANGED <<config, registry, on_connect_callbacks, fault, raised,
                 attempt, failed_attempts, faults_left>>

\* line 75: __aenter__ raises; the try block (and its finally) is not entered
\* and the exception reaches wrapped_with_retries (lines 18-24)
AcquireFault(f) ==
  /\ pc = "connecting"
  /\ faults_left > 0
  /\ faults_left' = faults_left - 1
  /\ fault' = f
  /\ raised' = [at |-> "acquire", kind |-> f]
  /\ pc' = RetryOutcome(retry_config)
  /\ failed_attempts' = failed_attempts + 1
  /\ dispatched' = NoDispatch
  /\ UNCHANGED <<running, config, registry, on_connect_callbacks, client,
                 sub_calls, sub_state, gathered, hook_tasks, attempt,
                 first_running, subghost>>

\* line 112: the remote call returns; _on_connection goes on to the hooks
SubscribeReturn ==
  /\ pc = "subscribing"
  /\ HooksOrOn(sub_calls, "returned")
  /\ dispatched' = NoDispatch
  /\ UNCHANGED <<config, registry, on_connect_callbacks, client, fault, raised,
                 attempt, failed_attempts, faults_left, first_running, subghost>>

\* line 112: the remote call raises; lines 83-96 handle the exception
SubscribeFault(f) ==
  /\ pc = "subscribing"
  /\ faults_left > 0
  /\ faults_left' = faults_left - 1
  /\ raised' = [at |-> "subscribe", kind |-> f]
  /\ fault' = Reraise(f)
  /\ ExitTry
  /\ dispatched' = NoDispatch
  /\ UNCHANGED <<config, registry, on_connect_callbacks, client, gathered,
                 hook_tasks, attempt, failed_attempts, first_running, subghost>>

\* a hook task runs to its end (also one whose gather was already left)
HookFinish(i) ==
  /\ Suspended
  /\ i \in DOMAIN hook_tasks
  /\ hook_tasks[i] = "pending"
  /\ hook_tasks' = [hook_tasks EXCEPT ![i] = "done"]
  /\ dispatched' = NoDispatch
  /\ UNCHANGED <<pc, running, config, registry, on_connect_callbacks, client,
                 sub_calls, sub_state, gathered, fault, raised, attempt,
                 failed_attempts, faults_left, first_running, subghost>>

\* line 114: gather returns once every task is done
GatherReturn ==
  /\ pc = "gathering"
  /\ \A i \in DOMAIN hook_tasks : hook_tasks[i] = "done"
  /\ WaitOrExit(sub_calls, sub_state)
  /\ dispatched' = NoDispatch
  /\ UNCHANGED <<config, registry, on_connect_callbacks, client, gathered,
                 hook_tasks, fault, raised, attempt, failed_attempts,
                 faults_left, first_running, subghost>>

\* line 114: gather (return_exceptions=False) raises the first exception of
\* a task at once; the other tasks are not cancelled and are not awaited;
\* lines 83-96 handle the exception
HookFault(i, f) ==
  /\ pc = "gathering"
  /\ i \in DOMAIN hook_tasks
  /\ hook_tasks[i] = "pending"
  /\ faults_left > 0
  /\ faults_left' = faults_left - 1
  /\ hook_tasks' = [hook_tasks EXCEPT ![i] = "faulted"]
  /\ raised' = [at |-> "hook", kind |-> f]
  /\ fault' = Reraise(f)
  /\ ExitTry
  /\ dispatched' = NoDispatch
  /\ UNCHANGED <<config, registry, on_connect_callbacks, client, gathered,
                 attempt, failed_attempts, first_running, subghost>>

\* line 82: the reader finishes, wait_on_reader returns
ReaderReturn ==
  /\ pc = "connected"
  /\ ExitTry
  /\ dispatched' = NoDispatch
  /\ UNCHANGED <<config, registry, on_connect_callbacks, client, gathered,
                 hook_tasks, fault, raised, attempt, failed_attempts,
                 faults_left, first_running, subghost>>

\* line 82: wait_on_reader raises; lines 83-96 handle the exception
ReaderFault(f) ==
  /\ pc = "connected"
  /\ faults_left > 0
  /\ faults_left' = faults_left - 1
  /\ raised' = [at |-> "reader", kind |-> f]
  /\ fault' = Reraise(f)
  /\ ExitTry
  /\ dispatched' = NoDispatch
  /\ UNCHANGED <<config, registry, on_connect_callbacks, client, gathered,
                 hook_tasks, attempt, failed_attempts, first_running, subghost>>

\* faulty variant of Close: with a retry policy the body is run again
\* whenever it ends, also when it returned
CloseRetryOnReturn ==
  /\ pc = "closing"
  /\ client' = "none"
  /\ IF fault = "none" /\ retry_config = "disabled"
       THEN /\ pc' = "returned"
            /\ UNCHANGED failed_attempts
       ELSE /\ pc' = RetryOutcome(retry_config)
            /\ failed_attempts' = failed_attempts + (IF fault = "none" THEN 0 ELSE 1)
  /\ dispatched' = NoDispatch
  /\ UNCHANGED <<running, config, registry, on_connect_callbacks, sub_calls,
                 sub_state, gathered, hook_tasks, fault, raised, attempt,
                 faults_left, first_running, subghost>>

\* line 75: __aexit__ is done; the body returns, or its exception reaches
\* wrapped_with_retries (lines 18-24)
Close ==
  /\ pc = "closing"
  /\ client' = "none"
  /\ IF fault = "none"
       THEN /\ pc' = "returned"
            /\ UNCHANGED failed_attempts
       ELSE /\ pc' = RetryOutcome(retry_config)
            /\ failed_attempts' = failed_attempts + 1
  /\ dispatched' = NoDispatch
  /\ UNCHANGED <<running, config, registry, on_connect_callbacks, sub_calls,
                 sub_state, gathered, hook_tasks, fault, raised, attempt,
                 faults_left, first_running, subghost>>

\* lines 22-24: tenacity has slept; it calls the body of run() again
Backoff ==
  /\ pc = "backoff"
  /\ pc' = "connecting"
  /\ attempt' = attempt + 1
  /\ fault' = "none"
  /\ raised' = NoFault
  /\ dispatched' = NoDispatch
  /\ UNCHANGED <<running, config, registry, on_connect_callbacks, client,
                 sub_calls, sub_state, gathered, hook_tasks, failed_attempts,
                 faults_left, first_running, subghost>>

\* ------------------------------------------------ the other methods
runstate == <<pc, running, retry_config, wait_on_reader, client, sub_calls,
              sub_state, gathered, hook_tasks, fault, raised, attempt,
              failed_attempts, faults_left, first_running>>

\* lines 98-101: subscribe(topic, callback)
subscribe(topic, callback) ==
  /\ Suspended
  /\ SubscribeAllowed(running) => Len(topics) < MaxTopics
  /\ IF SubscribeAllowed(running)
       THEN /\ topics' = AddTopic(topics, topic)
            /\ callbacks' = Record(callbacks, topic, callback)
            /\ pre_start_topics' =
                 IF pc = "idle" THEN pre_start_topics \cup {topic} ELSE pre_start_topics
            /\ late_subscribe' = (late_subscribe \/ (pc # "idle" /\ first_running = 0))
            /\ UNCHANGED last_call
       ELSE UNCHANGED <<topics, callbacks, subghost>>
  /\ dispatched' = NoDispatch
  /\ UNCHANGED <<runstate, topics_is_default, on_connect_callbacks>>

\* lines 103-104: on_connect(callback)
on_connect(callback) ==
  /\ Suspended
  /\ Len(on_connect_callbacks) < MaxHooks
  /\ on_connect_callbacks' = Append(on_connect_callbacks, callback)
  /\ dispatched' = NoDispatch
  /\ UNCHANGED <<runstate, registry, subghost>>

\* line 75: the reader of the connection delivers notifications while run()
\* is inside the body of `async with`: __aenter__ starts it, __aexit__ ends it
ReaderLive == client = "open" /\ pc \in {"subscribing", "gathering", "connected"}

\* lines 116-118: act_on_topic(topic, data), called for a notification that
\* the reader of the open connection received
act_on_topic(topic, data) ==
  /\ Suspended
  /\ ReaderLive
  /\ dispatched' = [topic |-> topic, data |-> data,
                    calls |-> Dispatch(callbacks, topic, data)]
  /\ UNCHANGED <<runstate, registry, subghost, on_connect_callbacks>>

\* lines 51, 60, 98-101: subscribe() on another EventRpcClient() that was
\* constructed without a topics argument and is not running.  The default
\* value `[]` of the parameter is one list object, so when this client was
\* constructed without topics too, the other client's _topics is this
\* client's _topics (otherwise the call touches nothing of this client)
OtherSubscribe(topic) ==
  /\ Suspended
  /\ topics_is_default
  /\ Len(topics) < MaxTopics
  /\ topics' = AddTopic(topics, topic)
  /\ dispatched' = NoDispatch
  /\ UNCHANGED <<runstate, topics_is_default, callbacks, subghost,
                 on_connect_callbacks>>

\* ------------------------------------------------------- specification
RunStep ==
  \/ \E h \in {"open", "null"} : Acquire(h)
  \/ \E f \in FaultKinds : AcquireFault(f)
  \/ SubscribeReturn
  \/ \E f \in FaultKinds : SubscribeFault(f)
  \/ \E i \in 1..MaxHooks : HookFinish(i)
  \/ GatherReturn
  \/ \E i \in 1..MaxHooks, f \in FaultKinds : HookFault(i, f)
  \/ ReaderReturn
  \/ \E f \in FaultKinds : ReaderFault(f)
  \/ Close
  \/ Backoff

Next ==
  \/ \E w \in BOOLEAN : Start(w)
  \/ RunStep
  \/ \E t \in TopicIds, cb \in CallbackIds : subscribe(t, cb)
  \/ \E h \in HookIds : on_connect(h)
  \/ \E t \in TopicIds, d \in DataVals : act_on_topic(t, d)
  \/ \E t \in TopicIds : OtherSubscribe(t)

Spec == Init /\ [][Next]_vars

\* every await of run() that can complete does complete: the transport
\* answers, the hooks end, the backoff sleep elapses
Progress ==
  \/ \E h \in {"open", "null"} : Acquire(h)
  \/ SubscribeReturn
  \/ \E i \in 1..MaxHooks : HookFinish(i)
  \/ GatherReturn
  \/ ReaderReturn
  \/ Close
  \/ Backoff

\* the liveness of run() is that of the retry wrapper: a client with a retry
\* policy (line 66, the default of the constructor)
RetryInit == Init /\ retry_config = "default"

FairSpec == RetryInit /\ [][Next]_vars /\ WF_vars(Progress)

\* ------------------------------------------------------------ properties
AllHooksDone == \A i \in DOMAIN hook_tasks : hook_tasks[i] = "done"
SubscribeStep == \E t \in TopicIds, cb \in CallbackIds : subscribe(t, cb)
CallTopics(calls) == IF calls = <<>> THEN {} ELSE Range(calls[1])
\* a step in which gather starts hook tasks
HooksStarted ==
  \E i \in DOMAIN hook_tasks' :
    hook_tasks'[i] = "pending" /\ (i \in DOMAIN hook_tasks => hook_tasks[i] # "pending")
\* a step in which a handle that is not None is acquired
AcquiredStep == pc = "connecting" /\ client' = "open"
\* a step in which the handshake is past the batched subscribe call (it has
\* returned, or there was nothing to send) and comes to the hooks
HooksPoint ==
  \/ AcquiredStep /\ topics = <<>>
  \/ pc = "subscribing" /\ pc' # pc /\ raised' = raised

\* C1: once run() has set Running to true for the first time, every later
\* subscribe(topic, callback) call (while connected, inside a backoff window,
\* after run() has returned) leaves the topic list and the callback map
\* unchanged.
C1_FrozenSinceFirstRunning ==
  [][(ever_running /\ SubscribeStep) => (topics' = topics /\ callbacks' = callbacks)]_vars

\* C2: every handshake, the first one and the one of each reconnect, issues
\* exactly one remote subscribe call, whose argument is the whole topic list
\* (no call when the list is empty), and, when it comes to the hooks, starts
\* every registered connect-hook exactly once; nothing but the handshake that
\* follows the acquisition of a handle issues a call or starts a hook.
C2_Step ==
  /\ AcquiredStep => sub_calls' = (IF topics = <<>> THEN <<>> ELSE <<topics>>)
  /\ (AcquiredStep /\ topics # <<>>) => pc' = "subscribing"
  /\ (sub_calls' # sub_calls /\ sub_calls' # <<>>) => AcquiredStep
  /\ HooksPoint
       => IF on_connect_callbacks = <<>>
            THEN ~HooksStarted /\ pc' \in {"connected", "closing"}
            ELSE /\ pc' = "gathering"
                 /\ gathered' = on_connect_callbacks
                 /\ DOMAIN hook_tasks' = DOMAIN on_connect_callbacks
                 /\ \A i \in DOMAIN hook_tasks' : hook_tasks'[i] = "pending"
  /\ HooksStarted => HooksPoint
C2_Inv ==
  /\ Len(sub_calls) <= 1
  /\ pc = "connected"
       => /\ sub_state = (IF sub_calls = <<>> THEN "none" ELSE "returned")
          /\ AllHooksDone /\ DOMAIN hook_tasks = DOMAIN gathered
          /\ Len(gathered) <= Len(on_connect_callbacks)
          /\ gathered = SubSeq(on_connect_callbacks, 1, Len(gathered))
C3_FirstBatchIsUnionOfSubscribes ==
  [][(AcquiredStep /\ first_running = 0 /\ topics_is_default /\ ~late_subscribe)
      => CallTopics(sub_calls') = pre_start_topics]_vars

\* C4: with retry enabled, an exception of any kind raised by the batched
\* subscribe call, by a connect-hook or by the connected wait is not
\* swallowed: the attempt is left without entering or going on with the
\* connected wait, run() neither returns nor fails, and a new attempt that
\* starts with connection acquisition follows.
FaultedInside == raised.at \in {"subscribe", "hook", "reader"}
C4_Inv ==
  (retry_config = "default" /\ FaultedInside)
    => /\ pc \in {"closing", "backoff"}
       /\ raised.kind \in FaultKinds
       /\ fault = raised.kind
C4_Step ==
  (pc = "backoff" /\ pc' # pc)
    => (pc' = "connecting" /\ attempt' = attempt + 1 /\ raised' = NoFault)
C4_FaultRestartsAttempt ==
  /\ []C4_Inv
  /\ [][C4_Step]_vars
  /\ (retry_config = "default" /\ FaultedInside) ~> (pc = "connecting")
C4_Witness ==
  /\ retry_config = "default" /\ pc = "backoff"
  /\ raised = [at |-> "hook", kind |-> "other"]

\* C5: with retry disabled, an exception raised by connection acquisition, by
\* the handshake or by the connected wait makes run() execute its body exactly
\* once and reach the caller as that same exception, with Running false; no
\* backoff and no second acquisition happen.
C5_NoRetryWhenDisabled ==
  retry_config = "disabled"
    => /\ attempt <= 1
       /\ pc # "backoff"
       /\ raised.at # "none" => pc \in {"closing", "failed"}
       /\ pc = "failed" => /\ attempt = 1
                           /\ ~running
                           /\ fault \in FaultKinds
                           /\ fault = raised.kind
C5_Witness ==
  /\ retry_config = "disabled" /\ pc = "failed"
  /\ raised = [at |-> "acquire", kind |-> "transport"]
  /\ fault = "transport" /\ attempt = 1

\* C6: with the default retry policy run() never reaches its caller after a
\* failed attempt: it does not fail, and when it returns the last execution
\* of its body raised nothing and the body was executed exactly once more than
\* it failed (N failures, N retries); when the awaits of run() complete and
\* the faults stop, run() returns.
C6_Inv ==
  retry_config = "default"
    => /\ pc # "failed"
       /\ pc = "returned" => /\ raised = NoFault
                             /\ fault = "none"
                             /\ attempt = failed_attempts + 1
       /\ pc = "connecting" => attempt = failed_attempts + 1
C6_RetryUntilSuccess ==
  /\ []C6_Inv
  /\ (retry_config = "default" /\ pc = "connecting") ~> (pc = "returned")
C6_Witness ==
  /\ retry_config = "default" /\ pc = "returned"
  /\ failed_attempts = MaxFaults /\ attempt = MaxFaults + 1

\* C7: act_on_topic(topic, data) for a topic with a registered callback makes
\* exactly one call, of that topic's callback, with exactly that data; for a
\* topic without a callback it makes no call; in both cases it raises nothing
\* and changes nothing of the client.
C7_Result ==
  dispatched.topic # "none" =>
    IF callbacks[dispatched.topic] # "none"
      THEN /\ Len(dispatched.calls) = 1
           /\ dispatched.calls[1].cb = callbacks[dispatched.topic]
           /\ dispatched.calls[1].data = dispatched.data
           /\ dispatched.data \in DataVals
      ELSE dispatched.calls = <<>>
C7_Frame ==
  dispatched' # NoDispatch =>
    UNCHANGED <<runstate, registry, subghost, on_connect_callbacks>>
C7_DispatchExactlyTheCallback == []C7_Result /\ [][C7_Frame]_vars
C7_Witness ==
  /\ dispatched.topic = "guns" /\ dispatched.data = "d1"
  /\ dispatched.calls = <<[cb |-> "cbA", data |-> "d1"]>>
  /\ topics = <<"guns", "germs">>
  /\ callbacks["germs"] = "none"

\* C8: Running is false unless run() is inside the handshake or the connected
\* wait of the current attempt: it is false before the first connect, during
\* acquisition, in every backoff window, once an exception has left the try
\* block, and after run() has returned or failed.
C8_RunningOnlyInsideAttempt ==
  running => (pc \in {"subscribing", "gathering", "connected"} /\ raised = NoFault)
C8_Witness == pc = "backoff" /\ ever_running /\ ~running /\ raised.at = "reader"

\* C9 as stated: Running is true only once the handshake is complete, that
\* is, wherever Running is true the batched subscribe call and all
\* connect-hooks of the connection have completed.
C9_RunningOnlyAfterHandshake ==
  running => (pc = "connected" /\ sub_state # "pending" /\ AllHooksDone)

\* C9 as amended: Running is set when the handshake starts, before the
\* subscribe call is issued.  Wherever Running is true a handle that is not
\* None has been acquired in the current attempt and run() is in the handshake
\* or in the connected wait; the subscribe call and all hooks have completed
\* only from the moment the connected wait is entered.
C9_RunningFromHandshakeStart ==
  /\ running => (client = "open" /\ pc \in {"subscribing", "gathering", "connected"})
  /\ (running /\ pc = "connected") => (sub_state \in {"none", "returned"} /\ AllHooksDone)
  /\ pc \in {"subscribing", "gathering"} => running
C9_Witness == running /\ pc = "gathering" /\ ~AllHooksDone /\ sub_state = "returned"

\* C10: within one attempt, acquisition is complete before the handshake
\* starts, the batched subscribe call has been issued and has returned before
\* any connect-hook is started, and the connected wait is entered only after
\* the subscribe call and every connect-hook have completed without fault.
C10_Inv ==
  /\ pc = "connecting" => (sub_calls = <<>> /\ sub_state = "none")
  /\ pc \in {"subscribing", "gathering", "connected"} => client = "open"
  /\ pc = "gathering" => sub_state = (IF sub_calls = <<>> THEN "none" ELSE "returned")
  /\ pc = "connected"
       => /\ sub_state = (IF sub_calls = <<>> THEN "none" ELSE "returned")
          /\ AllHooksDone
          /\ raised = NoFault
C10_Step ==
  /\ HooksStarted => (pc \in {"connecting", "subscribing"} /\ sub_state' # "pending")
  /\ (pc' = "connected" /\ pc # "connected")
       => (pc \in {"connecting", "subscribing", "gathering"} /\ AllHooksDone')
  /\ (pc' \in {"subscribing", "gathering"} /\ pc' # pc) => pc \in {"connecting", "subscribing"}
C10_StepsOfAnAttemptInOrder == []C10_Inv /\ [][C10_Step]_vars
C10_Witness ==
  /\ pc = "connected" /\ sub_state = "returned" /\ sub_calls # <<>>
  /\ gathered = <<"h1">> /\ AllHooksDone

\* C11: connection attempts never overlap: when an attempt begins connection
\* acquisition, every connect-hook started by the handshake of an earlier
\* attempt has finished (gather waits for all hooks, also when one faults).
C11_AttemptsDoNotOverlap ==
  pc = "connecting" => \A i \in DOMAIN hook_tasks : hook_tasks[i] # "pending"

\* C12: no callback is dispatched for an inbound event of the current
\* connection before that connection's handshake (the batched subscribe call
\* and all connect-hooks) has completed.
HandshakeCompleted == pc = "connected"
C12_NoDispatchBeforeHandshake ==
  dispatched.calls # <<>> => HandshakeCompleted

\* C13: callback registration is last-write-wins.  A subscribe(topic, cb)
\* that takes effect records cb for the topic over any earlier callback,
\* leaves the callbacks of the other topics alone and appends the topic once
\* more to the topic list; nothing else changes the callback map; a dispatch
\* calls the callback the map holds; and the batched subscribe call lists a
\* topic as many times as the topic list holds it.
Occurrences(s, t) == Cardinality({i \in 1..Len(s) : s[i] = t})
C13_Step ==
  /\ \A t \in TopicIds, cb \in CallbackIds :
       (subscribe(t, cb) /\ ~running)
         => /\ callbacks'[t] = cb
            /\ \A u \in TopicIds \ {t} : callbacks'[u] = callbacks[u]
            /\ Len(topics') = Len(topics) + 1
            /\ Occurrences(topics', t) = Occurrences(topics, t) + 1
  /\ callbacks' # callbacks => SubscribeStep
  /\ (AcquiredStep /\ topics # <<>>)
       => /\ Len(sub_calls') = 1
          /\ \A t \in TopicIds :
               Occurrences(sub_calls'[1], t) = Occurrences(topics, t)
C13_Dispatch ==
  dispatched.calls # <<>>
    => \A i \in DOMAIN dispatched.calls :
         dispatched.calls[i].cb = callbacks[dispatched.topic]
OnConnectStep == \E h \in HookIds : on_connect(h)
ActOnTopicStep == \E t \in TopicIds, d \in DataVals : act_on_topic(t, d)
C14_Step ==
  /\ (SubscribeStep \/ OnConnectStep \/ ActOnTopicStep) => running' = running
  /\ SubscribeStep => ((topics' # topics) <=> ~running)
  /\ \A t \in TopicIds, cb \in CallbackIds :
       subscribe(t, cb)
         => IF running
              THEN topics' = topics /\ callbacks' = callbacks
              ELSE topics' = Append(topics, t) /\ callbacks'[t] = cb
C15_Step ==
  /\ \A h \in HookIds :
       on_connect(h)
         => /\ on_connect_callbacks' = Append(on_connect_callbacks, h)
            /\ gathered' = gathered /\ hook_tasks' = hook_tasks
  /\ on_connect_callbacks' # on_connect_callbacks => OnConnectStep
  /\ HooksPoint
       => /\ Len(gathered') = Len(on_connect_callbacks)
          /\ \A i \in DOMAIN on_connect_callbacks :
               gathered'[i] = on_connect_callbacks[i] /\ hook_tasks'[i] = "pending"
C15_Inv ==
  \A h \in HookIds :
    Len(on_connect_callbacks) < MaxHooks => ENABLED on_connect(h)
NullAcquiredStep == pc = "connecting" /\ client' = "null"
C16_Step ==
  /\ NullAcquiredStep
       => /\ ~running' /\ first_running' = first_running
          /\ sub_calls' = <<>> /\ sub_state' = "none"
          /\ ~HooksStarted /\ gathered' = gathered
          /\ pc' = "closing"
          /\ raised' = NoFault /\ fault' = "none"
  /\ (client = "null" /\ pc' # pc)
       => (pc' = "returned" /\ ~running' /\ attempt' = attempt /\ ~HooksStarted)
C16_Inv ==
  client = "null"
    => /\ pc = "closing"
       /\ ~running
       /\ sub_calls = <<>>
       /\ raised = NoFault /\ fault = "none"
C16_NullHandleSkipsHandshake == []C16_Inv /\ [][C16_Step]_vars
C16_Witness ==
  /\ client = "null" /\ pc = "closing"
  /\ attempt = 2 /\ first_running = 0
  /\ topics # <<>> /\ on_connect_callbacks # <<>>

\* C17: whenever a connection is live with its handshake completed, the
\* topics that have a callback in the callback map are among the topics
\* listed in the batched subscribe call of that connection (the most recent
\* one).
CallbackTopics == {t \in TopicIds : callbacks[t] # "none"}
C17_CallbackTopicsWereSent ==
  pc = "connected" => CallbackTopics \subseteq CallTopics(sub_calls)
C17_Witness ==
  /\ pc = "connected" /\ running
  /\ sub_calls = <<<<"germs", "guns">>>>
  /\ callbacks["guns"] = "cbA" /\ callbacks["germs"] = "none"

\* C18: client instances are isolated: a subscribe call on another client
\* that was constructed without a topics argument leaves this client's topic
\* list and callback map unchanged.
OtherSubscribeStep == \E t \in TopicIds : OtherSubscribe(t)
C18_ClientsAreIsolated ==
  [][OtherSubscribeStep => (topics' = topics /\ callbacks' = callbacks)]_vars

\* C19: a reconnect is triggered only by a fault.  An attempt that ends
\* without a fault (the reader wait returned, the caller asked not to wait on
\* the reader, or the handle was None) makes run() return with Running false,
\* also with retry enabled; no backoff and no further attempt follow.
C19_Step ==
  /\ (pc = "closing" /\ raised = NoFault /\ pc' # pc)
       => (pc' = "returned" /\ ~running' /\ attempt' = attempt)
  /\ (pc' = "backoff" /\ pc # "backoff") => raised'.at # "none"
  /\ attempt' # attempt => (pc = "idle" \/ (pc = "backoff" /\ raised.at # "none"))
  /\ pc = "returned" => (pc' = "returned" /\ ~running' /\ attempt' = attempt)
C19_Inv ==
  /\ pc = "returned"
       => (~running /\ raised = NoFault /\ fault = "none" /\ client = "none")
  /\ pc = "backoff" => raised.at # "none"
  /\ (pc = "closing" /\ raised = NoFault) => ~running
C19_ReconnectOnlyOnFault == []C19_Inv /\ [][C19_Step]_vars
C19_Witness ==
  /\ pc = "returned" /\ retry_config = "default"
  /\ ~wait_on_reader /\ ever_running
  /\ attempt = 1 /\ faults_left = MaxFaults

\* C20: the registry only grows.  No step removes or reorders an entry of the
\* topic list or removes a key of the callback map; the topic list of each
\* batched subscribe call has the list of the previous call, and so of every
\* earlier call, as a prefix.
IsPrefix(s, t) == Len(s) <= Len(t) /\ SubSeq(t, 1, Len(s)) = s
C20_Step ==
  /\ IsPrefix(topics, topics')
  /\ \A t \in TopicIds : callbacks[t] # "none" => callbacks'[t] # "none"
  /\ (AcquiredStep /\ sub_calls' # <<>>)
       => /\ IsPrefix(last_call, sub_calls'[1])
          /\ last_call' = sub_calls'[1]
  /\ last_call' # last_call => AcquiredStep
C20_Inv == IsPrefix(last_call, topics)
C20_RegistryOnlyGrows == []C20_Inv /\ [][C20_Step]_vars
C20_Witness ==
  /\ attempt = 2 /\ pc = "connecting"
  /\ last_call = <<"guns">>
  /\ topics = <<"guns", "germs">>
  /\ callbacks["germs"] = "cbA"

====
